---------------------------- MODULE Spec2Model ----------------------------
(***************************************************************************)
(* A model of the xmlcreate node hierarchy: the XmlNode base class, the    *)
(* XmlElement container, the XmlCdata leaf, and the variants XmlText,      *)
(* XmlDtdEntity and XmlAttribute.                                          *)
(*                                                                         *)
(* The heap is parallel sequences indexed by node identity: the class of   *)
(* the node, whether it has been constructed, its string payload (_name,   *)
(* _data or _text), its _parent and its _children.  The classes of the     *)
(* nodes the caller will construct are fixed at the start.  Strings are    *)
(* sequences of one-character strings.  Array indices are the 0-based      *)
(* indices of the source.  A method is an operator from the heap and the   *)
(* arguments to the heap after the call and the value returned or thrown.  *)
(***************************************************************************)
EXTENDS Integers, Sequences, FiniteSets

VARIABLES kind, alive, name, parent, children, last

vars == <<kind, alive, name, parent, children, last>>

(* ------------------------------ bounds --------------------------------- *)

\* The numbers of elements and of attributes the caller constructs.
MaxElements == 2

MaxAttributes == 2

\* The length of the array passed as the value of an attribute.
MaxValueLen == 1

\* The length of the strings assigned to the data of a CDATA section, and to
\* the name of an element and the text of a DTD entity.
MaxDataLen == 3

MaxNameLen == 2

(* ------------------------- values of the program ----------------------- *)

\* The value of _parent of a node that has no parent.
Undefined == 0

\* An argument that is not an instance of XmlNode.
NotANode == 0

Kinds ==
    {"XmlAttribute", "XmlCdata", "XmlCharRef", "XmlComment", "XmlDtdEntity",
     "XmlElement", "XmlEntityRef", "XmlProcInst", "XmlText"}

\* The values a call leaves behind: what it returned, or what it threw.
NoRet == [tag |-> "none", node |-> 0, bool |-> FALSE, str |-> <<>>, nodes |-> <<>>]

RetNode(n) == [NoRet EXCEPT !.tag = "node", !.node = n]

RetUndefined == [NoRet EXCEPT !.tag = "undefined"]

RetBool(b) == [NoRet EXCEPT !.tag = "bool", !.bool = b]

RetString(s) == [NoRet EXCEPT !.tag = "string", !.str = s]

RetNodes(s) == [NoRet EXCEPT !.tag = "nodes", !.nodes = s]

Throw(e) == [NoRet EXCEPT !.tag = e]

Errors ==
    {"InvalidArgument", "InvalidIndex", "InvalidName", "InvalidCharacterData",
     "DuplicateAttribute", "UnsupportedOperation", "StackOverflow"}

\* A constructor found no node left to construct: the call is not made.
NoSlot == [NoRet EXCEPT !.tag = "NoSlot"]

IsThrow(r) == r.tag \in Errors \cup {"NoSlot"}

\* The heap as one value.
Heap ==
    [kind |-> kind, alive |-> alive, name |-> name, parent |-> parent,
     children |-> children]

Nodes(st) == {n \in 1 .. Len(st.kind) : st.alive[n]}

Out(st, r) == [st |-> st, ret |-> r]

(* ----------------------------- arrays ---------------------------------- *)

\* Array.prototype.indexOf: the 0-based index of the first occurrence, or -1.
IndexOf(s, x) ==
    IF \E i \in 1 .. Len(s) : s[i] = x
    THEN (CHOOSE i \in 1 .. Len(s) : s[i] = x /\ \A j \in 1 .. (i - 1) : s[j] # x) - 1
    ELSE -1

\* push(x) in place of splice(index, 0, x).
SpliceIn_AtEnd(s, index, x) == Append(s, x)

\* Array.prototype.splice(index, 0, x); an index past the end is clamped.
SpliceIn(s, index, x) ==
    LET i == IF index > Len(s) THEN Len(s) ELSE index
    IN  SubSeq(s, 1, i) \o <<x>> \o SubSeq(s, i + 1, Len(s))

\* pop() in place of splice(index, 1).
SpliceOut_Last(s, index) == SubSeq(s, 1, Len(s) - 1)

\* Array.prototype.splice(index, 1).
SpliceOut(s, index) ==
    SubSeq(s, 1, index) \o SubSeq(s, index + 2, Len(s))

\* Array.prototype.filter.
RECURSIVE Filter(_, _)
Filter(s, keep) ==
    IF s = <<>> THEN <<>>
    ELSE (IF keep[Head(s)] THEN <<Head(s)>> ELSE <<>>) \o Filter(Tail(s), keep)

\* The index argument: <<>> when omitted, <<i>> when given.
IndexOr(index, default) == IF index = <<>> THEN default ELSE index[1]

(* ------------------------------ XmlNode -------------------------------- *)

XmlNode_children(st, self) == Out(st, RetNodes(st.children[self]))

\* removeChild without "node._parent = undefined".
XmlNode_removeChild_KeepsParent(st, self, node) ==
    IF node = NotANode THEN Out(st, Throw("InvalidArgument"))
    ELSE LET index == IndexOf(st.children[self], node)
         IN  IF index # -1
             THEN Out([st EXCEPT !.children[self] = SpliceOut(@, index)], RetBool(TRUE))
             ELSE Out(st, RetBool(FALSE))

XmlNode_removeChild(st, self, node) ==
    IF node = NotANode THEN Out(st, Throw("InvalidArgument"))
    ELSE LET index == IndexOf(st.children[self], node)
         IN  IF index # -1
             THEN Out([st EXCEPT !.parent[node] = Undefined,
                                 !.children[self] = SpliceOut(@, index)],
                      RetBool(TRUE))
             ELSE Out(st, RetBool(FALSE))

XmlNode_removeChildAtIndex(st, self, index) ==
    IF index < 0 \/ index >= Len(st.children[self])
    THEN Out(st, Throw("InvalidIndex"))
    ELSE LET node == st.children[self][index + 1]
         IN  Out([st EXCEPT !.parent[node] = Undefined,
                            !.children[self] = SpliceOut(@, index)],
                 RetNode(node))

(* ---------------- leaves: XmlCdata, XmlText, XmlDtdEntity -------------- *)

XmlCdata_children(st, self) == Out(st, Throw("UnsupportedOperation"))

XmlCdata_insertChild(st, self, node, index) == Out(st, Throw("UnsupportedOperation"))

\* XmlCdata without its override of removeChild.
XmlCdata_removeChild_Inherited(st, self, node) == XmlNode_removeChild(st, self, node)

XmlCdata_removeChild(st, self, node) == Out(st, Throw("UnsupportedOperation"))

XmlCdata_removeChildAtIndex(st, self, index) == Out(st, Throw("UnsupportedOperation"))

\* XmlText, XmlCharRef, XmlComment, XmlDtdEntity, XmlEntityRef and XmlProcInst
\* are the other variants that forbid children.
Leaf_children(st, self) == Out(st, Throw("UnsupportedOperation"))

Leaf_insertChild(st, self, node, index) == Out(st, Throw("UnsupportedOperation"))

Leaf_removeChild(st, self, node) == Out(st, Throw("UnsupportedOperation"))

Leaf_removeChildAtIndex(st, self, index) == Out(st, Throw("UnsupportedOperation"))

(* ------------------------- virtual dispatch ---------------------------- *)

\* XmlElement and XmlAttribute inherit removeChild, removeChildAtIndex and
\* children from XmlNode.
removeChild(st, self, node) ==
    CASE st.kind[self] \in {"XmlElement", "XmlAttribute"} -> XmlNode_removeChild(st, self, node)
      [] st.kind[self] = "XmlCdata" -> XmlCdata_removeChild(st, self, node)
      [] OTHER -> Leaf_removeChild(st, self, node)

removeChildAtIndex(st, self, index) ==
    CASE st.kind[self] \in {"XmlElement", "XmlAttribute"} -> XmlNode_removeChildAtIndex(st, self, index)
      [] st.kind[self] = "XmlCdata" -> XmlCdata_removeChildAtIndex(st, self, index)
      [] OTHER -> Leaf_removeChildAtIndex(st, self, index)

childrenOf(st, self) ==
    CASE st.kind[self] \in {"XmlElement", "XmlAttribute"} -> XmlNode_children(st, self)
      [] st.kind[self] = "XmlCdata" -> XmlCdata_children(st, self)
      [] OTHER -> Leaf_children(st, self)

(* ------------------------ XmlNode, continued --------------------------- *)

XmlNode_insertChild(st, self, node, index) ==
    LET idx == IndexOr(index, Len(st.children[self]))
    IN  IF node = NotANode THEN Out(st, Throw("InvalidArgument"))
        ELSE IF idx < 0 \/ idx > Len(st.children[self])
        THEN Out(st, Throw("InvalidIndex"))
        ELSE IF IndexOf(st.children[self], node) = -1
        THEN LET r == IF st.parent[node] # Undefined
                      THEN removeChild(st, st.parent[node], node)
                      ELSE Out(st, RetUndefined)
             IN  IF IsThrow(r.ret) THEN r
                 ELSE Out([r.st EXCEPT !.parent[node] = self,
                                       !.children[self] = SpliceIn(@, idx, node)],
                          RetNode(node))
        ELSE Out(st, RetUndefined)

XmlNode_remove(st, self) ==
    IF st.parent[self] # Undefined
    THEN LET p == st.parent[self]
             r == removeChild(st, p, self)
         IN  IF IsThrow(r.ret) THEN r ELSE Out(r.st, RetNode(p))
    ELSE Out(st, RetUndefined)

\* top(): a call nested deeper than there are nodes is inside a cycle of
\* parents and is never left: the stack overflows.
RECURSIVE XmlNode_top(_, _, _)
XmlNode_top(st, self, depth) ==
    IF depth > Len(st.kind) THEN Throw("StackOverflow")
    ELSE IF st.parent[self] = Undefined THEN RetNode(self)
    ELSE XmlNode_top(st, st.parent[self], depth + 1)

(* ----------------------------- validation ------------------------------ *)

\* The characters of the model's strings.  "^A" stands for U+0001, which is
\* not an XML Char.
NameStartChars == {"a", "b", "c", "x", "_", ":"}

NameChars == NameStartChars \cup {"1", "2", "3", ".", "-"}

Chars == NameChars \cup {"]", ">", "<", "&", " ", "[", "!"}

validateName(s) ==
    /\ Len(s) > 0
    /\ s[1] \in NameStartChars
    /\ \A i \in 2 .. Len(s) : s[i] \in NameChars

validateChar(s) == \A i \in 1 .. Len(s) : s[i] \in Chars

\* RegExp.prototype.test for a literal pattern: sub occurs in s.
Contains(s, sub) ==
    \E i \in 1 .. (Len(s) - Len(sub) + 1) : SubSeq(s, i, i + Len(sub) - 1) = sub

(* ----------------------------- construction ---------------------------- *)

\* The nodes of class k that are not constructed yet.
Free(st, k) == {n \in 1 .. Len(st.kind) : st.kind[n] = k /\ ~ st.alive[n]}

NewNode(st, k) == CHOOSE n \in Free(st, k) : \A m \in Free(st, k) : n <= m

\* super(): a new node with no parent and no children.
Alloc(st, k) ==
    [st EXCEPT !.alive[NewNode(st, k)] = TRUE, !.name[NewNode(st, k)] = <<>>,
               !.parent[NewNode(st, k)] = Undefined, !.children[NewNode(st, k)] = <<>>]

\* A call that throws leaves the nodes it constructed unreachable, and they
\* are collected, unless a node that existed before now has one as parent.
Collect(st0, r) ==
    LET new == Nodes(r.st) \ Nodes(st0)
    IN  IF IsThrow(r.ret) /\ ~ \E n \in Nodes(st0) : r.st.parent[n] \in new
        THEN Out([r.st EXCEPT !.alive = st0.alive, !.name = st0.name,
                              !.parent = st0.parent, !.children = st0.children],
                 r.ret)
        ELSE r

(* ------------------------------ XmlCdata ------------------------------- *)

\* get data
XmlCdata_data(st, self) == st.name[self]

\* The setter without the test for "]]>".
XmlCdata_setData_NoTerminatorTest(st, self, data) ==
    IF ~ validateChar(data) THEN Out(st, Throw("InvalidCharacterData"))
    ELSE Out([st EXCEPT !.name[self] = data], RetUndefined)

XmlCdata_setData(st, self, data) ==
    IF ~ validateChar(data) THEN Out(st, Throw("InvalidCharacterData"))
    ELSE IF Contains(data, <<"]", "]", ">">>) THEN Out(st, Throw("InvalidCharacterData"))
    ELSE Out([st EXCEPT !.name[self] = data], RetUndefined)

XmlCdata_new(st, data) ==
    IF Free(st, "XmlCdata") = {} THEN Out(st, NoSlot)
    ELSE LET self == NewNode(st, "XmlCdata")
             r == XmlCdata_setData(Alloc(st, "XmlCdata"), self, data)
         IN  Collect(st, IF IsThrow(r.ret) THEN r ELSE Out(r.st, RetNode(self)))

(* ----------------------- XmlText and XmlDtdEntity ---------------------- *)

XmlText_setText(st, self, text) ==
    IF ~ validateChar(text) THEN Out(st, Throw("InvalidCharacterData"))
    ELSE Out([st EXCEPT !.name[self] = text], RetUndefined)

XmlText_new(st, text) ==
    IF Free(st, "XmlText") = {} THEN Out(st, NoSlot)
    ELSE LET self == NewNode(st, "XmlText")
             r == XmlText_setText(Alloc(st, "XmlText"), self, text)
         IN  Collect(st, IF IsThrow(r.ret) THEN r ELSE Out(r.st, RetNode(self)))

\* get text
XmlDtdEntity_text(st, self) == st.name[self]

XmlDtdEntity_setText(st, self, text) ==
    IF ~ validateChar(text) THEN Out(st, Throw("InvalidCharacterData"))
    ELSE Out([st EXCEPT !.name[self] = text], RetUndefined)

XmlDtdEntity_new(st, text) ==
    IF Free(st, "XmlDtdEntity") = {} THEN Out(st, NoSlot)
    ELSE LET self == NewNode(st, "XmlDtdEntity")
             r == XmlDtdEntity_setText(Alloc(st, "XmlDtdEntity"), self, text)
         IN  Collect(st, IF IsThrow(r.ret) THEN r ELSE Out(r.st, RetNode(self)))

(* ----------------------------- XmlAttribute ---------------------------- *)

XmlAttribute_setName(st, self, nm) ==
    IF ~ validateName(nm) THEN Out(st, Throw("InvalidName"))
    ELSE Out([st EXCEPT !.name[self] = nm], RetUndefined)

XmlAttribute_insertChild(st, self, node, index) ==
    IF node = NotANode
       \/ st.kind[node] \notin {"XmlCharRef", "XmlEntityRef", "XmlText"}
    THEN Out(st, Throw("InvalidArgument"))
    ELSE XmlNode_insertChild(st, self, node, index)

\* The constructor's loop over the value nodes: each is appended.
RECURSIVE XmlAttribute_insertAll(_, _, _)
XmlAttribute_insertAll(st, self, value) ==
    IF value = <<>> THEN Out(st, RetNode(self))
    ELSE LET r == XmlAttribute_insertChild(st, self, Head(value), <<>>)
         IN  IF IsThrow(r.ret) THEN r
             ELSE XmlAttribute_insertAll(r.st, self, Tail(value))

XmlAttribute_new(st, nm, value) ==
    IF Free(st, "XmlAttribute") = {} THEN Out(st, NoSlot)
    ELSE LET self == NewNode(st, "XmlAttribute")
             r == XmlAttribute_setName(Alloc(st, "XmlAttribute"), self, nm)
         IN  IF IsThrow(r.ret) THEN r ELSE XmlAttribute_insertAll(r.st, self, value)

(* ------------------------------ XmlElement ----------------------------- *)

\* get name
XmlElement_name(st, self) == st.name[self]

\* The setter without the call of validateName.
XmlElement_setName_NoValidation(st, self, nm) ==
    Out([st EXCEPT !.name[self] = nm], RetUndefined)

XmlElement_setName(st, self, nm) ==
    IF ~ validateName(nm) THEN Out(st, Throw("InvalidName"))
    ELSE Out([st EXCEPT !.name[self] = nm], RetUndefined)

XmlElement_new(st, nm) ==
    IF Free(st, "XmlElement") = {} THEN Out(st, NoSlot)
    ELSE LET self == NewNode(st, "XmlElement")
             r == XmlElement_setName(Alloc(st, "XmlElement"), self, nm)
         IN  Collect(st, IF IsThrow(r.ret) THEN r ELSE Out(r.st, RetNode(self)))

\* attributes() that stops at the first child that is not an attribute.
XmlElement_attributes_Leading(st, self) ==
    LET s == st.children[self]
        stop == {i \in 1 .. Len(s) : st.kind[s[i]] # "XmlAttribute"}
    IN  IF stop = {} THEN s
        ELSE SubSeq(s, 1, (CHOOSE i \in stop : \A j \in stop : i <= j) - 1)

\* this._children.filter(node => node instanceof XmlAttribute)
XmlElement_attributes(st, self) ==
    Filter(st.children[self], [n \in 1 .. Len(st.kind) |-> st.kind[n] = "XmlAttribute"])

\* insertChild without the scan of the attributes for the name of the node.
XmlElement_insertChild_NoNameScan(st, self, node, index) ==
    IF node = NotANode
       \/ st.kind[node] \notin {"XmlAttribute", "XmlCdata", "XmlCharRef", "XmlComment",
                                "XmlElement", "XmlEntityRef", "XmlProcInst", "XmlText"}
    THEN Out(st, Throw("InvalidArgument"))
    ELSE XmlNode_insertChild(st, self, node, index)

\* insertChild without the instanceof test of the node.
XmlElement_insertChild_AnyNode(st, self, node, index) ==
    IF node = NotANode THEN Out(st, Throw("InvalidArgument"))
    ELSE IF /\ st.kind[node] = "XmlAttribute"
            /\ LET attributes == XmlElement_attributes(st, self)
               IN  \E i \in 1 .. Len(attributes) : st.name[attributes[i]] = st.name[node]
    THEN Out(st, Throw("DuplicateAttribute"))
    ELSE XmlNode_insertChild(st, self, node, index)

XmlElement_insertChild(st, self, node, index) ==
    IF node = NotANode
       \/ st.kind[node] \notin {"XmlAttribute", "XmlCdata", "XmlCharRef", "XmlComment",
                                "XmlElement", "XmlEntityRef", "XmlProcInst", "XmlText"}
    THEN Out(st, Throw("InvalidArgument"))
    ELSE IF /\ st.kind[node] = "XmlAttribute"
            /\ LET attributes == XmlElement_attributes(st, self)
               IN  \E i \in 1 .. Len(attributes) : st.name[attributes[i]] = st.name[node]
    THEN Out(st, Throw("DuplicateAttribute"))
    ELSE XmlNode_insertChild(st, self, node, index)

insertChild(st, self, node, index) ==
    CASE st.kind[self] = "XmlElement" -> XmlElement_insertChild(st, self, node, index)
      [] st.kind[self] = "XmlAttribute" -> XmlAttribute_insertChild(st, self, node, index)
      [] st.kind[self] = "XmlCdata" -> XmlCdata_insertChild(st, self, node, index)
      [] OTHER -> Leaf_insertChild(st, self, node, index)

\* An item of the value of attribute(): a string, or a node.
StrItem(s) == [isStr |-> TRUE, str |-> s, node |-> NotANode]

NodeItem(n) == [isStr |-> FALSE, str |-> <<>>, node |-> n]

\* The strings of the value are replaced by new XmlText nodes, in order.
RECURSIVE XmlElement_wrapValue(_, _, _)
XmlElement_wrapValue(st, value, acc) ==
    IF value = <<>> THEN Out(st, RetNodes(acc))
    ELSE IF Head(value).isStr
    THEN LET r == XmlText_new(st, Head(value).str)
         IN  IF IsThrow(r.ret) THEN r
             ELSE XmlElement_wrapValue(r.st, Tail(value), Append(acc, r.ret.node))
    ELSE XmlElement_wrapValue(st, Tail(value), Append(acc, Head(value).node))

XmlElement_attribute(st, self, nm, value, index) ==
    LET w == XmlElement_wrapValue(st, value, <<>>)
        a == IF IsThrow(w.ret) THEN w ELSE XmlAttribute_new(w.st, nm, w.ret.nodes)
        r == IF IsThrow(a.ret) THEN a ELSE insertChild(a.st, self, a.ret.node, index)
    IN  Collect(st, IF IsThrow(r.ret) THEN r ELSE Out(r.st, a.ret))

XmlElement_cdata(st, self, content, index) ==
    LET c == XmlCdata_new(st, content)
        r == IF IsThrow(c.ret) THEN c ELSE insertChild(c.st, self, c.ret.node, index)
    IN  Collect(st, IF IsThrow(r.ret) THEN r ELSE Out(r.st, c.ret))

XmlElement_element(st, self, nm, index) ==
    LET c == XmlElement_new(st, nm)
        r == IF IsThrow(c.ret) THEN c ELSE insertChild(c.st, self, c.ret.node, index)
    IN  Collect(st, IF IsThrow(r.ret) THEN r ELSE Out(r.st, c.ret))

XmlElement_text(st, self, text, index) ==
    LET c == XmlText_new(st, text)
        r == IF IsThrow(c.ret) THEN c ELSE insertChild(c.st, self, c.ret.node, index)
    IN  Collect(st, IF IsThrow(r.ret) THEN r ELSE Out(r.st, c.ret))

(* ----------------------------- serialization -------------------------- *)

\* The options after defaulting: two spaces and a line feed.
StringOptions(pretty) == [pretty |-> pretty, indent |-> <<" ", " ">>, newline |-> <<"\n">>]

\* String.prototype.split for a separator of one character.
RECURSIVE Split(_, _, _)
Split(s, sep, line) ==
    IF s = <<>> THEN <<line>>
    ELSE IF <<Head(s)>> = sep THEN <<line>> \o Split(Tail(s), sep, <<>>)
    ELSE Split(Tail(s), sep, Append(line, Head(s)))

\* Array.prototype.join.
RECURSIVE Join(_, _)
Join(lines, sep) ==
    IF lines = <<>> THEN <<>>
    ELSE IF Len(lines) = 1 THEN lines[1]
    ELSE lines[1] \o sep \o Join(Tail(lines), sep)

\* The indent before the string as a whole, not before each of its lines.
Indent_FirstLine(s, options) == options.indent \o s

\* nextStr.split(newline).map(indenter).join(newline)
Indent(s, options) ==
    LET lines == Split(s, options.newline, <<>>)
    IN  Join([i \in 1 .. Len(lines) |-> options.indent \o lines[i]], options.newline)

\* The classes of allSameLineNodes and onSameLine without XmlText.
SameLineKinds_NoText == {"XmlCharRef", "XmlEntityRef"}

SameLineKinds == {"XmlCharRef", "XmlEntityRef", "XmlText"}

\* allSameLineNodes that returns true at the first node of such a class.
allSameLineNodes_Some(st, nodes) ==
    \E i \in 1 .. Len(nodes) : st.kind[nodes[i]] \in SameLineKinds

allSameLineNodes(st, nodes) ==
    \A i \in 1 .. Len(nodes) : st.kind[nodes[i]] \in SameLineKinds

onSameLine(st, prev, next) ==
    st.kind[prev] \in SameLineKinds /\ st.kind[next] \in SameLineKinds

\* The markup characters of text are replaced by entity references.
RECURSIVE Escape(_)
Escape(s) ==
    IF s = <<>> THEN <<>>
    ELSE (CASE Head(s) = "&" -> <<"&", "a", "m", "p", ";">>
            [] Head(s) = "<" -> <<"&", "l", "t", ";">>
            [] OTHER -> <<Head(s)>>) \o Escape(Tail(s))

XmlText_toString(st, self) == RetString(Escape(st.name[self]))

XmlCdata_toString(st, self) ==
    RetString(<<"<", "!", "[", "C", "D", "A", "T", "A", "[">> \o st.name[self]
              \o <<"]", "]", ">">>)

XmlDtdEntity_toString(st, self) ==
    RetString(<<"<", "!", "E", "N", "T", "I", "T", "Y", " ">> \o st.name[self] \o <<">">>)

\* A call nested deeper than there are nodes is inside a cycle of children and
\* is never left: the stack overflows.
RECURSIVE toString(_, _, _, _)
RECURSIVE XmlAttribute_values(_, _, _, _, _)
RECURSIVE XmlElement_attributesLoop(_, _, _, _, _)
RECURSIVE XmlElement_nodesLoop(_, _, _, _, _, _)

\* The renderings of the value nodes, concatenated to str.
XmlAttribute_values(st, nodes, options, depth, str) ==
    IF nodes = <<>> THEN RetString(str)
    ELSE LET r == toString(st, Head(nodes), options, depth + 1)
         IN  IF IsThrow(r) THEN r
             ELSE XmlAttribute_values(st, Tail(nodes), options, depth, str \o r.str)

XmlAttribute_toString(st, self, options, depth) ==
    LET r == XmlAttribute_values(st, st.children[self], options, depth,
                                 st.name[self] \o <<"=", "\"">>)
    IN  IF IsThrow(r) THEN r ELSE RetString(r.str \o <<"\"">>)

\* The loop over the attributes without the space before each.
XmlElement_attributesLoop_NoSpace(st, attributes, options, depth, str) ==
    IF attributes = <<>> THEN RetString(str)
    ELSE LET r == toString(st, Head(attributes), options, depth + 1)
         IN  IF IsThrow(r) THEN r
             ELSE XmlElement_attributesLoop(st, Tail(attributes), options, depth,
                                           str \o r.str)

\* for (const attribute of attributes) str += " " + attribute.toString(options)
XmlElement_attributesLoop(st, attributes, options, depth, str) ==
    IF attributes = <<>> THEN RetString(str)
    ELSE LET r == toString(st, Head(attributes), options, depth + 1)
         IN  IF IsThrow(r) THEN r
             ELSE XmlElement_attributesLoop(st, Tail(attributes), options, depth,
                                           str \o <<" ">> \o r.str)

\* for (let i = 0; i < nodes.length; i++); here i counts from 1.
XmlElement_nodesLoop(st, nodes, i, options, depth, str) ==
    IF i > Len(nodes) THEN RetString(str)
    ELSE LET next == nodes[i]
             r == toString(st, next, options, depth + 1)
             break == /\ options.pretty
                      /\ ~ allSameLineNodes(st, nodes)
                      /\ ~ (i > 1 /\ onSameLine(st, next, nodes[i - 1]))
         IN  IF IsThrow(r) THEN r
             ELSE XmlElement_nodesLoop(st, nodes, i + 1, options, depth,
                      IF break THEN str \o options.newline \o Indent(r.str, options)
                      ELSE str \o r.str)

XmlElement_toString(st, self, options, depth) ==
    LET attributes == XmlElement_attributes(st, self)
        nodes == Filter(st.children[self],
                        [n \in 1 .. Len(st.kind) |-> IndexOf(attributes, n) = -1])
        open == XmlElement_attributesLoop(st, attributes, options, depth,
                                          <<"<">> \o st.name[self])
        body == XmlElement_nodesLoop(st, nodes, 1, options, depth, open.str \o <<">">>)
    IN  IF IsThrow(open) THEN open
        ELSE IF Len(nodes) > 0
        THEN IF IsThrow(body) THEN body
             ELSE RetString(body.str
                            \o (IF options.pretty /\ ~ allSameLineNodes(st, nodes)
                                THEN options.newline ELSE <<>>)
                            \o <<"<", "/">> \o st.name[self] \o <<">">>)
        ELSE RetString(open.str \o <<"/", ">">>)

toString(st, self, options, depth) ==
    IF depth > Len(st.kind) THEN Throw("StackOverflow")
    ELSE CASE st.kind[self] = "XmlElement" -> XmlElement_toString(st, self, options, depth)
           [] st.kind[self] = "XmlAttribute" -> XmlAttribute_toString(st, self, options, depth)
           [] st.kind[self] = "XmlCdata" -> XmlCdata_toString(st, self)
           [] st.kind[self] = "XmlDtdEntity" -> XmlDtdEntity_toString(st, self)
           [] OTHER -> XmlText_toString(st, self)

(* ------------------------------ the caller ----------------------------- *)

\* n nodes of class k.
Of(n, k) == [i \in 1 .. n |-> k]

\* The classes of the nodes the caller constructs, in one run of the program.
Pools ==
    {Of(MaxElements, "XmlElement") \o Of(MaxAttributes, "XmlAttribute"),
     Of(1, "XmlElement") \o Of(MaxAttributes, "XmlAttribute") \o Of(1, "XmlText"),
     Of(1, "XmlElement") \o Of(1, "XmlText") \o Of(1, "XmlCdata") \o Of(1, "XmlDtdEntity")}

\* The strings the caller passes as the name of an element, as the name of
\* an attribute, as text and as the data of a CDATA section.
ElementNameInputs == {<<"c">>, <<"1">>}

NameInputs == {<<"a">>, <<"b">>, <<"1">>}

TextInputs == {<<"x">>, <<"^A">>}

DataInputs == {<<"x">>, <<"]", "]", ">">>, <<"^A">>}

\* The strings the caller assigns to the text of a DTD entity.
EntityTextInputs == {<<"a">>, <<"1">>, <<"^A">>}

\* The index arguments for an array of length n: omitted, or -1 .. n + 1.
IndexInputs(n) == {<<>>} \cup {<<i>> : i \in -1 .. (n + 1)}

\* The index arguments of the factory methods: omitted, first, out of bounds.
FactoryIndexInputs(n) == {<<>>, <<0>>, <<n + 1>>}

\* The arrays of at most n items of a set.
SeqsUpTo(S, n) == UNION {[1 .. k -> S] : k \in 0 .. n}

\* The node of the first item of an array, if it is one.
FirstNode(value) == IF value = <<>> THEN NotANode ELSE value[1].node

\* The call in progress: the method, the receiver, the node and the index
\* passed, the parent that node had before the call, the pretty option, and
\* the outcome.  The caller makes one call at a time.
NoCall ==
    [op |-> "none", self |-> 0, node |-> 0, index |-> <<>>, prev |-> 0,
     pretty |-> FALSE, ret |-> NoRet]

Call(op, self, node, index) ==
    [NoCall EXCEPT !.op = op, !.self = self, !.node = node, !.index = index,
                   !.prev = IF node \in Nodes(Heap) THEN parent[node] ELSE Undefined]

\* The call leaves the heap r.st and the value r.ret.
Apply(call, r) ==
    /\ last = NoCall
    /\ r.ret # NoSlot
    /\ alive' = r.st.alive
    /\ name' = r.st.name
    /\ parent' = r.st.parent
    /\ children' = r.st.children
    /\ last' = [call EXCEPT !.ret = r.ret]
    /\ UNCHANGED kind

\* The caller has the outcome of the call and goes on.
Return ==
    /\ last # NoCall
    /\ last' = NoCall
    /\ UNCHANGED <<kind, alive, name, parent, children>>

Init ==
    /\ kind \in Pools
    /\ alive = [n \in 1 .. Len(kind) |-> FALSE]
    /\ name = [n \in 1 .. Len(kind) |-> <<>>]
    /\ parent = [n \in 1 .. Len(kind) |-> Undefined]
    /\ children = [n \in 1 .. Len(kind) |-> <<>>]
    /\ last = NoCall

NewElement ==
    \E nm \in ElementNameInputs :
        /\ Free(Heap, "XmlElement") # {}
        /\ Apply(Call("new XmlElement", 0, 0, <<>>), XmlElement_new(Heap, nm))

NewCdata ==
    \E data \in DataInputs :
        /\ Free(Heap, "XmlCdata") # {}
        /\ Apply(Call("new XmlCdata", 0, 0, <<>>), XmlCdata_new(Heap, data))

NewText ==
    \E text \in TextInputs :
        /\ Free(Heap, "XmlText") # {}
        /\ Apply(Call("new XmlText", 0, 0, <<>>), XmlText_new(Heap, text))

NewDtdEntity ==
    \E text \in TextInputs :
        /\ Free(Heap, "XmlDtdEntity") # {}
        /\ Apply(Call("new XmlDtdEntity", 0, 0, <<>>), XmlDtdEntity_new(Heap, text))

NewAttribute ==
    \E nm \in NameInputs, value \in SeqsUpTo(Nodes(Heap), MaxValueLen) :
        /\ Free(Heap, "XmlAttribute") # {}
        /\ Apply(Call("new XmlAttribute", 0, IF value = <<>> THEN NotANode ELSE value[1], <<>>),
              Collect(Heap, XmlAttribute_new(Heap, nm, value)))

SetName ==
    \E self \in Nodes(Heap), nm \in NameInputs \cup ElementNameInputs :
        \/ /\ kind[self] = "XmlElement"
           /\ nm \in ElementNameInputs
           /\ Apply(Call("set name", self, 0, <<>>), XmlElement_setName(Heap, self, nm))
        \/ /\ kind[self] = "XmlAttribute"
           /\ nm \in NameInputs
           /\ Apply(Call("set name", self, 0, <<>>), XmlAttribute_setName(Heap, self, nm))

SetData ==
    \E self \in Nodes(Heap), data \in DataInputs :
        /\ kind[self] = "XmlCdata"
        /\ Apply(Call("set data", self, 0, <<>>), XmlCdata_setData(Heap, self, data))

SetText ==
    \E self \in Nodes(Heap), text \in TextInputs \cup EntityTextInputs :
        \/ /\ kind[self] = "XmlText"
           /\ text \in TextInputs
           /\ Apply(Call("set text", self, 0, <<>>), XmlText_setText(Heap, self, text))
        \/ /\ kind[self] = "XmlDtdEntity"
           /\ text \in EntityTextInputs
           /\ Apply(Call("set text", self, 0, <<>>), XmlDtdEntity_setText(Heap, self, text))

InsertChild ==
    \E self \in Nodes(Heap), node \in Nodes(Heap) \cup {NotANode} :
        \E index \in IndexInputs(Len(children[self])) :
            Apply(Call("insertChild", self, node, index),
                  insertChild(Heap, self, node, index))

RemoveChild ==
    \E self \in Nodes(Heap), node \in Nodes(Heap) \cup {NotANode} :
        Apply(Call("removeChild", self, node, <<>>), removeChild(Heap, self, node))

RemoveChildAtIndex ==
    \E self \in Nodes(Heap) :
        \E index \in -1 .. Len(children[self]) :
            Apply(Call("removeChildAtIndex", self, 0, <<index>>),
                  removeChildAtIndex(Heap, self, index))

Remove ==
    \E self \in Nodes(Heap) :
        Apply([Call("remove", self, 0, <<>>) EXCEPT !.prev = parent[self]],
              XmlNode_remove(Heap, self))

Top ==
    \E self \in Nodes(Heap) :
        Apply(Call("top", self, 0, <<>>), Out(Heap, XmlNode_top(Heap, self, 1)))

Children ==
    \E self \in Nodes(Heap) :
        Apply(Call("children", self, 0, <<>>), childrenOf(Heap, self))

Attribute ==
    \E self \in Nodes(Heap), nm \in NameInputs,
       value \in SeqsUpTo({StrItem(s) : s \in TextInputs} \cup {NodeItem(n) : n \in Nodes(Heap)},
                          MaxValueLen) :
        /\ kind[self] = "XmlElement"
        /\ \E index \in FactoryIndexInputs(Len(children[self])) :
               Apply(Call("attribute", self, FirstNode(value), index),
                     XmlElement_attribute(Heap, self, nm, value, index))

Cdata ==
    \E self \in Nodes(Heap), content \in DataInputs :
        /\ kind[self] = "XmlElement"
        /\ \E index \in FactoryIndexInputs(Len(children[self])) :
               Apply(Call("cdata", self, 0, index),
                     XmlElement_cdata(Heap, self, content, index))

Element ==
    \E self \in Nodes(Heap), nm \in ElementNameInputs :
        /\ kind[self] = "XmlElement"
        /\ \E index \in FactoryIndexInputs(Len(children[self])) :
               Apply(Call("element", self, 0, index),
                     XmlElement_element(Heap, self, nm, index))

Text ==
    \E self \in Nodes(Heap), text \in TextInputs :
        /\ kind[self] = "XmlElement"
        /\ \E index \in FactoryIndexInputs(Len(children[self])) :
               Apply(Call("text", self, 0, index),
                     XmlElement_text(Heap, self, text, index))

CallToString ==
    \E self \in Nodes(Heap), pretty \in BOOLEAN :
        Apply([Call("toString", self, 0, <<>>) EXCEPT !.pretty = pretty],
              Out(Heap, toString(Heap, self, StringOptions(pretty), 1)))

Next ==
    \/ NewElement
    \/ NewCdata
    \/ NewText
    \/ NewDtdEntity
    \/ NewAttribute
    \/ SetName
    \/ SetData
    \/ SetText
    \/ InsertChild
    \/ RemoveChild
    \/ RemoveChildAtIndex
    \/ Remove
    \/ Top
    \/ Children
    \/ Attribute
    \/ Cdata
    \/ Element
    \/ Text
    \/ CallToString
    \/ Return

Spec == Init /\ [][Next]_vars

(* --------------------- the caller that builds documents ---------------- *)

\* The numbers of elements and of text nodes of a document.
RenderElements == 3

RenderTexts == 2

\* The classes of the nodes of a document: nested elements; elements with
\* text; an element with attributes, text and a CDATA section.
RenderPools ==
    {Of(RenderElements, "XmlElement"),
     Of(RenderElements - 1, "XmlElement") \o Of(RenderTexts, "XmlText"),
     Of(1, "XmlElement") \o Of(MaxAttributes, "XmlAttribute") \o Of(1, "XmlText")
        \o Of(1, "XmlCdata")}

InitRender ==
    /\ kind \in RenderPools
    /\ alive = [n \in 1 .. Len(kind) |-> FALSE]
    /\ name = [n \in 1 .. Len(kind) |-> <<>>]
    /\ parent = [n \in 1 .. Len(kind) |-> Undefined]
    /\ children = [n \in 1 .. Len(kind) |-> <<>>]
    /\ last = NoCall

\* The document is built with the factory methods, rearranged with
\* insertChild, and rendered.
NextRender ==
    \/ NewElement
    \/ SetName
    \/ InsertChild
    \/ Attribute
    \/ Cdata
    \/ Element
    \/ Text
    \/ CallToString
    \/ Return

SpecRender == InitRender /\ [][NextRender]_vars

(* ------------------------------ properties ----------------------------- *)

Slots == 1 .. Len(kind)

Live == Nodes(Heap)

Elements == {n \in Live : kind[n] = "XmlElement"}

Attributes == {n \in Live : kind[n] = "XmlAttribute"}

Containers == Elements \cup Attributes

\* The number of times x occurs in s.
Occurs(s, x) == Cardinality({i \in 1 .. Len(s) : s[i] = x})

\* s without x.
Without(s, x) == SelectSeq(s, LAMBDA y : y # x)

\* s with x before the element at the 0-based index i.
InsertedAt(s, i, x) ==
    [k \in 1 .. (Len(s) + 1) |-> IF k <= i THEN s[k] ELSE IF k = i + 1 THEN x ELSE s[k - 1]]

\* The index arguments within the bounds of the children of p.
ValidIndexes(p) == {<<>>} \cup {<<i>> : i \in 0 .. Len(children[p])}

ElementChildKinds ==
    {"XmlAttribute", "XmlCdata", "XmlCharRef", "XmlComment", "XmlElement",
     "XmlEntityRef", "XmlProcInst", "XmlText"}

\* The attribute children of e that have the name nm.
AttributesNamed(e, nm) ==
    {i \in 1 .. Len(children[e]) :
        kind[children[e][i]] = "XmlAttribute" /\ name[children[e][i]] = nm}

\* The rules of the container p permit n as a child.
Permitted(p, n) ==
    IF kind[p] = "XmlElement"
    THEN /\ kind[n] \in ElementChildKinds
         /\ kind[n] = "XmlAttribute" => AttributesNamed(p, name[n]) = {}
    ELSE kind[n] \in {"XmlCharRef", "XmlEntityRef", "XmlText"}

\* C1: in every state, for all nodes n and p, the parent of n is p if and only
\* if n occurs among the children of p; n occurs among the children of at most
\* one node, and at most once; a node without parent is nobody's child.
C1_ParentMatchesChildren ==
    \A n \in Live :
        /\ parent[n] \in Live \cup {Undefined}
        /\ \A p \in Slots : (parent[n] = p) <=> (Occurs(children[p], n) >= 1)
        /\ \A p \in Slots : Occurs(children[p], n) <= 1
        /\ Cardinality({p \in Slots : Occurs(children[p], n) >= 1}) <= 1
        /\ parent[n] = Undefined => \A p \in Slots : Occurs(children[p], n) = 0

\* A node was moved from one parent to another by insertChild, and a call has
\* failed before or after.
C1_Witness ==
    /\ last.op = "insertChild"
    /\ last.ret = RetNode(last.node)
    /\ last.prev \notin {Undefined, last.self}
    /\ children[last.prev] # <<>>

\* C2: insertChild(n, i) on a container p of which n is not a child and whose
\* rules permit n, with i omitted or within 0 .. len: returns n, the children
\* of p become S[0..i), n, S[i..], the parent of n becomes p, n leaves the
\* children of its former parent q with the others in order, and no other
\* parent or child sequence changes.
C2_InsertChildSplices ==
    \A p \in Containers, n \in Live :
        \A index \in ValidIndexes(p) :
            (Occurs(children[p], n) = 0 /\ Permitted(p, n)) =>
                LET S == children[p]
                    i == IF index = <<>> THEN Len(S) ELSE index[1]
                    q == parent[n]
                    r == insertChild(Heap, p, n, index)
                IN  /\ r.ret = RetNode(n)
                    /\ r.st.children[p] = InsertedAt(S, i, n)
                    /\ r.st.parent[n] = p
                    /\ q # Undefined =>
                           /\ Occurs(children[q], n) = 1
                           /\ r.st.children[q] = Without(children[q], n)
                    /\ \A m \in Slots \ {n} : r.st.parent[m] = parent[m]
                    /\ \A m \in Slots \ {p, q} : r.st.children[m] = children[m]
                    /\ r.st.kind = kind /\ r.st.alive = alive /\ r.st.name = name

\* insertChild(n, 0) has moved n from a parent that keeps other children to
\* the front of the children of a node that had children.
C2_Witness ==
    /\ last.op = "insertChild"
    /\ last.ret = RetNode(last.node)
    /\ last.prev \notin {Undefined, last.self}
    /\ children[last.prev] # <<>>
    /\ Len(children[last.self]) >= 2
    /\ children[last.self][1] = last.node
    /\ parent[last.node] = last.self

\* C3: insertChild of a node that is already a child of the container, of any
\* variant and at any valid index, returns undefined, does not fail, and
\* changes nothing.
C3_ReinsertIsNoOp ==
    \A p \in Containers, n \in Live :
        \A index \in ValidIndexes(p) :
            Occurs(children[p], n) >= 1 =>
                insertChild(Heap, p, n, index) = Out(Heap, RetUndefined)

\* C4: in every state, no element has two attribute children of one name.
C4_AttributeNamesUnique ==
    \A e \in Elements :
        \A nm \in {name[a] : a \in Attributes} : Cardinality(AttributesNamed(e, nm)) <= 1

\* The values of attribute() that the constructors accept: strings of legal
\* characters and XmlText nodes.
ValidValues ==
    SeqsUpTo({StrItem(str) : str \in {t \in TextInputs : validateChar(t)}}
             \cup {NodeItem(n) : n \in {m \in Live : kind[m] = "XmlText"}},
             MaxValueLen)

\* The nodes that attribute() constructs for the value can be constructed.
CanConstruct(value) ==
    /\ Free(Heap, "XmlAttribute") # {}
    /\ Cardinality({i \in 1 .. Len(value) : value[i].isStr})
           <= Cardinality(Free(Heap, "XmlText"))

\* The element e has an attribute child other than a with the name nm.
HasOtherNamed(e, a, nm) == \E i \in AttributesNamed(e, nm) : children[e][i] # a

\* Every index argument, within the bounds of the children of p or not.
AnyIndexes(p) == {<<>>} \cup {<<i>> : i \in -1 .. (Len(children[p]) + 1)}

\* C5, as claimed: when the element e has an attribute named k, insertChild
\* of another attribute named k and attribute(k, value) fail with
\* DuplicateAttribute, and the children of e, the parent of the attribute and
\* the children of that parent are unchanged.
C5_DuplicateChangesNothing ==
    \A e \in Elements, k \in {name[a] : a \in Attributes} :
        AttributesNamed(e, k) # {} =>
            /\ \A a \in Attributes, index \in AnyIndexes(e) :
                   (name[a] = k /\ HasOtherNamed(e, a, k)) =>
                       insertChild(Heap, e, a, index) = Out(Heap, Throw("DuplicateAttribute"))
            /\ \A value \in ValidValues, index \in AnyIndexes(e) :
                   CanConstruct(value) =>
                       LET r == XmlElement_attribute(Heap, e, k, value, index)
                       IN  /\ r.ret = Throw("DuplicateAttribute")
                           /\ r.st.children[e] = children[e]

\* C5, amended: insertChild of another attribute named k changes nothing;
\* attribute(k, value) with a valid value fails with DuplicateAttribute and
\* leaves the attribute children of e as they were, and all the children of e
\* unless a node of the value was a child of e (the new attribute has taken
\* it); a value of strings alone changes nothing.
C5_DuplicateKeepsAttributes ==
    \A e \in Elements, k \in {name[a] : a \in Attributes} :
        AttributesNamed(e, k) # {} =>
            /\ \A a \in Attributes, index \in AnyIndexes(e) :
                   (name[a] = k /\ HasOtherNamed(e, a, k)) =>
                       insertChild(Heap, e, a, index) = Out(Heap, Throw("DuplicateAttribute"))
            /\ \A value \in ValidValues, index \in AnyIndexes(e) :
                   CanConstruct(value) =>
                       LET r == XmlElement_attribute(Heap, e, k, value, index)
                           taken == {i \in 1 .. Len(value) :
                                        ~ value[i].isStr /\ parent[value[i].node] = e}
                       IN  /\ r.ret = Throw("DuplicateAttribute")
                           /\ SelectSeq(r.st.children[e], LAMBDA n : kind[n] = "XmlAttribute")
                                = SelectSeq(children[e], LAMBDA n : kind[n] = "XmlAttribute")
                           /\ taken = {} => r.st.children[e] = children[e]
                           /\ (\A i \in 1 .. Len(value) : value[i].isStr) => r.st = Heap

\* attribute(k, t) has failed on an element that has an attribute named k,
\* and has taken the text t from the children of the element.
C5_Witness ==
    /\ last.op = "attribute"
    /\ last.ret = Throw("DuplicateAttribute")
    /\ last.node # NotANode
    /\ last.prev = last.self
    /\ parent[last.node] # last.self
    /\ \E i \in 1 .. Len(children[last.self]) :
           kind[children[last.self][i]] = "XmlAttribute"

\* C6: every child of an element is of one of the eight permitted variants,
\* and insertChild of a node of another variant on an element fails with
\* InvalidArgument for every index and changes nothing.
C6_ElementChildrenPermitted ==
    \A e \in Elements :
        /\ \A i \in 1 .. Len(children[e]) : kind[children[e][i]] \in ElementChildKinds
        /\ \A n \in Live, index \in AnyIndexes(e) :
               kind[n] \notin ElementChildKinds =>
                   insertChild(Heap, e, n, index) = Out(Heap, Throw("InvalidArgument"))

\* insertChild of a DTD entity on an element that has children has failed.
C6_Witness ==
    /\ last.op = "insertChild"
    /\ last.self \in Elements
    /\ last.node \in Live
    /\ kind[last.node] = "XmlDtdEntity"
    /\ last.ret = Throw("InvalidArgument")
    /\ children[last.self] # <<>>

Leaves == {n \in Live : kind[n] \in {"XmlCdata", "XmlText", "XmlDtdEntity"}}

\* C7: on a CDATA section, a text and a DTD entity, children, insertChild,
\* removeChild and removeChildAtIndex fail with UnsupportedOperation for every
\* argument and change nothing; the leaf has no child and is nobody's parent.
C7_LeavesRefuseChildren ==
    \A l \in Leaves :
        /\ children[l] = <<>>
        /\ \A n \in Slots : parent[n] # l
        /\ childrenOf(Heap, l) = Out(Heap, Throw("UnsupportedOperation"))
        /\ \A n \in Live \cup {NotANode} :
               /\ removeChild(Heap, l, n) = Out(Heap, Throw("UnsupportedOperation"))
               /\ \A index \in AnyIndexes(l) :
                      insertChild(Heap, l, n, index) = Out(Heap, Throw("UnsupportedOperation"))
        /\ \A index \in -1 .. 1 :
               removeChildAtIndex(Heap, l, index) = Out(Heap, Throw("UnsupportedOperation"))

\* insertChild on a CDATA section has failed, the node passed being the child
\* of an element, where it still is.
C7_Witness ==
    /\ last.op = "insertChild"
    /\ last.self \in Live
    /\ kind[last.self] = "XmlCdata"
    /\ last.ret = Throw("UnsupportedOperation")
    /\ last.node \in Live
    /\ last.prev \in Elements
    /\ parent[last.node] = last.prev

\* C8: removeChild(n) on a container p returns true exactly when n is a child
\* of p; then n has no parent and has left the children of p, the others in
\* order; otherwise nothing changes.  remove() on n returns the parent of n
\* with the same effect, or undefined with none when n has no parent.
C8_RemoveChildDetaches ==
    /\ \A p \in Containers, n \in Live :
           LET r == removeChild(Heap, p, n)
           IN  IF Occurs(children[p], n) >= 1
               THEN /\ r.ret = RetBool(TRUE)
                    /\ r.st.parent[n] = Undefined
                    /\ r.st.children[p] = Without(children[p], n)
                    /\ Len(r.st.children[p]) = Len(children[p]) - 1
                    /\ \A m \in Slots \ {n} : r.st.parent[m] = parent[m]
                    /\ \A m \in Slots \ {p} : r.st.children[m] = children[m]
                    /\ r.st.kind = kind /\ r.st.alive = alive /\ r.st.name = name
               ELSE r = Out(Heap, RetBool(FALSE))
    /\ \A n \in Live :
           LET r == XmlNode_remove(Heap, n)
               p == parent[n]
           IN  IF p # Undefined
               THEN /\ r.ret = RetNode(p)
                    /\ r.st.parent[n] = Undefined
                    /\ r.st.children[p] = Without(children[p], n)
                    /\ Len(r.st.children[p]) = Len(children[p]) - 1
                    /\ \A m \in Slots \ {n} : r.st.parent[m] = parent[m]
                    /\ \A m \in Slots \ {p} : r.st.children[m] = children[m]
                    /\ r.st.kind = kind /\ r.st.alive = alive /\ r.st.name = name
               ELSE r = Out(Heap, RetUndefined)

\* removeChild has returned true and the node, which was not the last child,
\* has left its parent, which keeps two children.
C8_Witness ==
    /\ last.op = "removeChild"
    /\ last.ret = RetBool(TRUE)
    /\ last.prev = last.self
    /\ parent[last.node] = Undefined
    /\ Len(children[last.self]) >= 2

\* C9: toString on an element of any tree built by successful calls returns a
\* string: it raises no error and its recursion ends.
C9_ToStringReturns ==
    \A e \in Elements, pretty \in BOOLEAN :
        toString(Heap, e, StringOptions(pretty), 1).tag = "string"

\* The renderings of the attributes, each after a space.
RECURSIVE AttributesText(_, _)
AttributesText(attributes, pretty) ==
    IF attributes = <<>> THEN <<>>
    ELSE <<" ">> \o toString(Heap, Head(attributes), StringOptions(pretty), 1).str
         \o AttributesText(Tail(attributes), pretty)

\* C10: an element with no child other than attributes renders as "<", its
\* name, a space and the rendering of each attribute in child order, and "/>",
\* with the pretty option set or not.
C10_SelfClosing ==
    \A e \in Elements, pretty \in BOOLEAN :
        (\A i \in 1 .. Len(children[e]) : kind[children[e][i]] = "XmlAttribute") =>
            toString(Heap, e, StringOptions(pretty), 1)
              = RetString(<<"<">> \o name[e] \o AttributesText(children[e], pretty)
                          \o <<"/", ">">>)

\* toString with the pretty option has rendered an element whose children are
\* two attributes, one of them with a text for value.
C10_Witness ==
    /\ last.op = "toString"
    /\ last.pretty
    /\ last.self \in Elements
    /\ last.ret.tag = "string"
    /\ Len(children[last.self]) = 2
    /\ \A i \in 1 .. 2 : kind[children[last.self][i]] = "XmlAttribute"
    /\ \E i \in 1 .. 2 : children[children[last.self][i]] # <<>>

\* The rendering of the node n.
Rendered(n, pretty) == toString(Heap, n, StringOptions(pretty), 1)

\* The attribute children and the other children of e, in child order.
AttributesOf(e) == SelectSeq(children[e], LAMBDA n : kind[n] = "XmlAttribute")

ContentOf(e) == SelectSeq(children[e], LAMBDA n : kind[n] # "XmlAttribute")

\* The strings of a sequence, concatenated.
RECURSIVE Concat(_)
Concat(strs) == IF strs = <<>> THEN <<>> ELSE Head(strs) \o Concat(Tail(strs))

\* C11: without the pretty option, an element with content nodes renders as
\* "<", its name, a space and the rendering of each attribute in child order
\* wherever the attribute stands among the children, ">", the rendering of
\* each other child in child order with nothing between, "</", its name, ">".
C11_PlainRendering ==
    \A e \in Elements :
        LET r == Rendered(e, FALSE)
            A == AttributesOf(e)
            C == ContentOf(e)
        IN  (r.tag = "string" /\ C # <<>>) =>
                /\ Len(A) + Len(C) = Len(children[e])
                /\ r.str = <<"<">> \o name[e]
                           \o Concat([i \in 1 .. Len(A) |->
                                         <<" ">> \o Rendered(A[i], FALSE).str])
                           \o <<">">>
                           \o Concat([i \in 1 .. Len(C) |-> Rendered(C[i], FALSE).str])
                           \o <<"<", "/">> \o name[e] \o <<">">>

\* toString without the pretty option has rendered an element whose children
\* are a content node, an attribute, a content node and an attribute.
C11_Witness ==
    /\ last.op = "toString"
    /\ ~ last.pretty
    /\ last.self \in Elements
    /\ last.ret.tag = "string"
    /\ Len(children[last.self]) = 4
    /\ \A i \in {1, 3} : kind[children[last.self][i]] # "XmlAttribute"
    /\ \A i \in {2, 4} : kind[children[last.self][i]] = "XmlAttribute"

\* The newline and the indent of the options after defaulting.
NL == StringOptions(TRUE).newline

IND == StringOptions(TRUE).indent

\* The children of e are a text and then an element without children.
TextThenElement(e) ==
    /\ Len(children[e]) = 2
    /\ kind[children[e][1]] = "XmlText"
    /\ kind[children[e][2]] = "XmlElement"
    /\ children[children[e][2]] = <<>>

\* C12, as claimed: with the pretty option, an element whose children are a
\* text and then an element renders the text right after the opening tag,
\* with no newline and no indent before it, and the child element on a line
\* of its own after one indent.
C12_TextStaysInline ==
    \A e \in Elements :
        TextThenElement(e) =>
            LET t == children[e][1]
                b == children[e][2]
            IN  Rendered(e, TRUE)
                  = RetString(<<"<">> \o name[e] \o <<">">>
                              \o Rendered(t, TRUE).str
                              \o NL \o IND \o <<"<">> \o name[b] \o <<"/", ">">>
                              \o NL \o <<"<", "/">> \o name[e] \o <<">">>)

\* C12, amended: with the pretty option, an element whose children are a text
\* and then an element renders the opening tag, a newline, one indent and the
\* text, a newline, one indent and the child element, a newline, and the
\* closing tag: the text too is on a line of its own.
C12_TextOnItsOwnLine ==
    \A e \in Elements :
        TextThenElement(e) =>
            LET t == children[e][1]
                b == children[e][2]
            IN  Rendered(e, TRUE)
                  = RetString(<<"<">> \o name[e] \o <<">">>
                              \o NL \o IND \o Rendered(t, TRUE).str
                              \o NL \o IND \o <<"<">> \o name[b] \o <<"/", ">">>
                              \o NL \o <<"<", "/">> \o name[e] \o <<">">>)

\* toString with the pretty option has rendered an element whose children are
\* the text x and then an element without children.
C12_Witness ==
    /\ last.op = "toString"
    /\ last.pretty
    /\ last.self \in Elements
    /\ last.ret.tag = "string"
    /\ TextThenElement(last.self)
    /\ name[children[last.self][1]] = <<"x">>

\* The strings assigned to the data of a CDATA section.
CdataStrings == SeqsUpTo({"x", "]", ">", "^A"}, MaxDataLen)

\* The string consists of legal characters and does not contain "]]>".
LegalCdata(d) ==
    /\ \A i \in 1 .. Len(d) : d[i] # "^A"
    /\ ~ \E i \in 1 .. (Len(d) - 2) : d[i] = "]" /\ d[i + 1] = "]" /\ d[i + 2] = ">"

\* The places of s where "]]>" begins.
Terminators(s) ==
    {i \in 1 .. (Len(s) - 2) : s[i] = "]" /\ s[i + 1] = "]" /\ s[i + 2] = ">"}

\* The rendering of the CDATA section c is "<![CDATA[", its data, "]]>",
\* and "]]>" occurs in it at the end only.
CdataRendering(st, c) ==
    LET str == XmlCdata_toString(st, c).str
    IN  /\ str = <<"<", "!", "[", "C", "D", "A", "T", "A", "[">> \o XmlCdata_data(st, c)
                  \o <<"]", "]", ">">>
        /\ Terminators(str) = {Len(str) - 2}

CdataNodes == {n \in Live : kind[n] = "XmlCdata"}

\* C13: assigning d to the data of a CDATA section, in the constructor or
\* through the setter, succeeds exactly when d consists of legal characters
\* and does not contain "]]>"; then reading data returns d; a failed setter
\* fails with InvalidCharacterData and leaves the data as it was; the
\* rendering of a CDATA section contains "]]>" at its end only.
C13_CdataData ==
    /\ \A c \in CdataNodes : LegalCdata(XmlCdata_data(Heap, c)) /\ CdataRendering(Heap, c)
    /\ \A d \in CdataStrings :
           /\ \A c \in CdataNodes :
                  LET r == XmlCdata_setData(Heap, c, d)
                  IN  IF LegalCdata(d)
                      THEN /\ r.ret = RetUndefined
                           /\ XmlCdata_data(r.st, c) = d
                           /\ r.st = [Heap EXCEPT !.name[c] = d]
                           /\ CdataRendering(r.st, c)
                      ELSE r = Out(Heap, Throw("InvalidCharacterData"))
           /\ Free(Heap, "XmlCdata") # {} =>
                  LET r == XmlCdata_new(Heap, d)
                  IN  IF LegalCdata(d)
                      THEN /\ r.ret = RetNode(NewNode(Heap, "XmlCdata"))
                           /\ XmlCdata_data(r.st, r.ret.node) = d
                           /\ CdataRendering(r.st, r.ret.node)
                      ELSE r = Out(Heap, Throw("InvalidCharacterData"))

\* The setter has failed on a CDATA section that was constructed with the
\* data x, and the section keeps that data.
C13_Witness ==
    /\ last.op = "set data"
    /\ last.ret = Throw("InvalidCharacterData")
    /\ last.self \in CdataNodes
    /\ XmlCdata_data(Heap, last.self) = <<"x">>

\* The strings assigned as names: of a letter, a digit, a hyphen and an
\* illegal character.
NameStrings == SeqsUpTo({"a", "1", "-", "^A"}, MaxNameLen)

\* The string is an XML Name: it begins with the letter, and the digit and
\* the hyphen may follow.
IsName(n) == n # <<>> /\ n[1] = "a" /\ \A i \in 1 .. Len(n) : n[i] # "^A"

\* The string consists of legal characters.
IsChars(n) == \A i \in 1 .. Len(n) : n[i] # "^A"

DtdEntities == {n \in Live : kind[n] = "XmlDtdEntity"}

\* The name of an element is validated as a Name by the constructor and by
\* the setter.
ElementNameValidated(n) ==
    /\ \A e \in Elements :
           LET r == XmlElement_setName(Heap, e, n)
           IN  IF IsName(n)
               THEN /\ r.ret = RetUndefined
                    /\ XmlElement_name(r.st, e) = n
                    /\ r.st = [Heap EXCEPT !.name[e] = n]
               ELSE r = Out(Heap, Throw("InvalidName"))
    /\ Free(Heap, "XmlElement") # {} =>
           LET r == XmlElement_new(Heap, n)
           IN  IF IsName(n)
               THEN /\ r.ret = RetNode(NewNode(Heap, "XmlElement"))
                    /\ XmlElement_name(r.st, r.ret.node) = n
               ELSE r = Out(Heap, Throw("InvalidName"))

\* C14, as claimed: for an element and for a DTD entity, the constructor and
\* the setter of the name or text succeed for an XML Name and fail with
\* InvalidName for a string that is not one, leaving the value as it was.
C14_NamesValidated ==
    \A n \in NameStrings :
        /\ ElementNameValidated(n)
        /\ \A e \in DtdEntities :
               LET r == XmlDtdEntity_setText(Heap, e, n)
               IN  IF IsName(n)
                   THEN r.ret = RetUndefined /\ XmlDtdEntity_text(r.st, e) = n
                   ELSE r = Out(Heap, Throw("InvalidName"))
        /\ Free(Heap, "XmlDtdEntity") # {} =>
               LET r == XmlDtdEntity_new(Heap, n)
               IN  IF IsName(n)
                   THEN r.ret.tag = "node" /\ XmlDtdEntity_text(r.st, r.ret.node) = n
                   ELSE r = Out(Heap, Throw("InvalidName"))

\* C14, amended: for an element as claimed; for a DTD entity, the constructor
\* and the setter of the text succeed for every string of legal characters,
\* an XML Name or not, and the text then reads back; they fail with
\* InvalidCharacterData for a string with an illegal character, leaving the
\* text as it was.
C14_EntityTextIsCharacters ==
    \A n \in NameStrings :
        /\ ElementNameValidated(n)
        /\ \A e \in DtdEntities :
               LET r == XmlDtdEntity_setText(Heap, e, n)
               IN  IF IsChars(n)
                   THEN /\ r.ret = RetUndefined
                        /\ XmlDtdEntity_text(r.st, e) = n
                        /\ r.st = [Heap EXCEPT !.name[e] = n]
                   ELSE r = Out(Heap, Throw("InvalidCharacterData"))
        /\ Free(Heap, "XmlDtdEntity") # {} =>
               LET r == XmlDtdEntity_new(Heap, n)
               IN  IF IsChars(n)
                   THEN /\ r.ret = RetNode(NewNode(Heap, "XmlDtdEntity"))
                        /\ XmlDtdEntity_text(r.st, r.ret.node) = n
                   ELSE r = Out(Heap, Throw("InvalidCharacterData"))

\* The setter of the text of a DTD entity has accepted a string that begins
\* with a digit, in a heap that has an element.
C14_Witness ==
    /\ last.op = "set text"
    /\ last.ret = RetUndefined
    /\ last.self \in DtdEntities
    /\ XmlDtdEntity_text(Heap, last.self) = <<"1">>
    /\ Elements # {}

\* The node reached from n by following k parent links, if there is one.
RECURSIVE ParentAt(_, _)
ParentAt(n, k) ==
    IF k = 0 THEN n
    ELSE IF ParentAt(n, k - 1) = Undefined THEN Undefined
    ELSE parent[ParentAt(n, k - 1)]

\* C15: in every state no node is reached from itself by following parent
\* links; top() on a node returns a node without parent that is the node or
\* one of its ancestors, and the node itself when it has no parent.
C15_ParentsAcyclic ==
    \A n \in Live :
        /\ \A k \in 1 .. Len(kind) : ParentAt(n, k) # n
        /\ LET r == XmlNode_top(Heap, n, 1)
           IN  /\ r.tag = "node"
               /\ parent[r.node] = Undefined
               /\ \E k \in 0 .. Len(kind) : ParentAt(n, k) = r.node
               /\ parent[n] = Undefined => r.node = n

\* The classes of the nodes that may share a line.
InlineKinds == {"XmlText", "XmlCharRef", "XmlEntityRef"}

\* Every content node of e is of such a class.
AllInline(e) == \A i \in 1 .. Len(ContentOf(e)) : kind[ContentOf(e)[i]] \in InlineKinds

\* C16: with the pretty option, an element whose content nodes are all text,
\* character references or entity references renders as without the option:
\* no newline and no indent is inserted, before the closing tag either.
C16_InlineContentStaysOnOneLine ==
    \A e \in Elements :
        (AllInline(e) /\ Rendered(e, FALSE).tag = "string") =>
            /\ Rendered(e, TRUE) = Rendered(e, FALSE)
            /\ \A i \in 1 .. Len(Rendered(e, TRUE).str) : <<Rendered(e, TRUE).str[i]>> # NL

\* toString with the pretty option has rendered an element whose content
\* nodes are two texts.
C16_Witness ==
    /\ last.op = "toString"
    /\ last.pretty
    /\ last.self \in Elements
    /\ last.ret.tag = "string"
    /\ Len(ContentOf(last.self)) = 2
    /\ AllInline(last.self)

\* The string with one indent at its start and after each newline in it.
RECURSIVE AfterNewlines(_)
AfterNewlines(s) ==
    IF s = <<>> THEN <<>>
    ELSE IF <<Head(s)>> = NL THEN NL \o IND \o AfterNewlines(Tail(s))
    ELSE <<Head(s)>> \o AfterNewlines(Tail(s))

IndentLines(s) == IND \o AfterNewlines(s)

\* d indents.
RECURSIVE Indents(_)
Indents(d) == IF d = 0 THEN <<>> ELSE IND \o Indents(d - 1)

\* The content node i of e begins a line: it is the first, or it and the one
\* before it are not both of a class that may share a line.
BeginsLine(e, i) ==
    \/ i = 1
    \/ ~ (kind[ContentOf(e)[i - 1]] \in InlineKinds /\ kind[ContentOf(e)[i]] \in InlineKinds)

\* The opening tag of e up to its name and attributes.
OpenTag(e) ==
    <<"<">> \o name[e]
    \o Concat([i \in 1 .. Len(AttributesOf(e)) |->
                  <<" ">> \o Rendered(AttributesOf(e)[i], TRUE).str])

\* The document below n written line by line, n being d levels below the
\* element rendered: each node that begins a line follows a newline and one
\* indent for each level.
RECURSIVE Document(_, _)
Document(n, d) ==
    IF kind[n] # "XmlElement" \/ AllInline(n) THEN Rendered(n, FALSE).str
    ELSE OpenTag(n) \o <<">">>
         \o Concat([i \in 1 .. Len(ContentOf(n)) |->
                       IF BeginsLine(n, i)
                       THEN NL \o Indents(d + 1) \o Document(ContentOf(n)[i], d + 1)
                       ELSE Document(ContentOf(n)[i], d + 1)])
         \o NL \o Indents(d) \o <<"<", "/">> \o name[n] \o <<">">>

\* The children of e are n elements without children.
ChildlessElements(e, n) ==
    /\ Len(children[e]) = n
    /\ \A i \in 1 .. n : kind[children[e][i]] = "XmlElement" /\ children[children[e][i]] = <<>>

\* C17: with the pretty option, an element with a content node that is not
\* text, a character reference or an entity reference renders its opening
\* tag, then each content node, after a newline and with one indent before
\* each line of its rendering exactly when it is the first or it and the one
\* before it may not share a line, and as it is otherwise, then a newline and
\* the closing tag; an element d levels below begins its line with d indents;
\* two elements b and c in a render as <a>, newline, indent <b/>, newline,
\* indent <c/>, newline, </a>.
C17_PrettyLineBreaks ==
    \A e \in Elements :
        (~ AllInline(e) /\ Rendered(e, TRUE).tag = "string") =>
            LET C == ContentOf(e)
            IN  /\ Rendered(e, TRUE).str
                     = OpenTag(e) \o <<">">>
                       \o Concat([i \in 1 .. Len(C) |->
                                     IF BeginsLine(e, i)
                                     THEN NL \o IndentLines(Rendered(C[i], TRUE).str)
                                     ELSE Rendered(C[i], TRUE).str])
                       \o NL \o <<"<", "/">> \o name[e] \o <<">">>
                /\ Rendered(e, TRUE).str = Document(e, 0)
                /\ ChildlessElements(e, 2) =>
                       Rendered(e, TRUE).str
                         = <<"<">> \o name[e] \o <<">", "\n", " ", " ", "<">>
                           \o name[C[1]] \o <<"/", ">", "\n", " ", " ", "<">>
                           \o name[C[2]] \o <<"/", ">", "\n", "<", "/">> \o name[e] \o <<">">>

\* toString with the pretty option has rendered an element whose content
\* nodes are two texts, which share a line, and an element.
C17_Witness ==
    /\ last.op = "toString"
    /\ last.pretty
    /\ last.self \in Elements
    /\ last.ret.tag = "string"
    /\ Len(ContentOf(last.self)) = 3
    /\ kind[ContentOf(last.self)[1]] = "XmlText"
    /\ kind[ContentOf(last.self)[2]] = "XmlText"
    /\ kind[ContentOf(last.self)[3]] = "XmlElement"

=============================================================================
